---- MODULE Spec2Model ----
(***************************************************************************)
(* Model of streamlit_app.py: the World Bank macro dashboard.              *)
(*                                                                         *)
(*   SpecFetch   - get_wb_indicator_data, one loop iteration per step,     *)
(*                 against an arbitrary provider.                          *)
(*   SpecReshape - the rendering of a non-empty DataFrame: latest year,    *)
(*                 metric tiles, pivot, displayed table, CSV export.       *)
(*   Spec        - the whole script, re-run on every interaction, with the *)
(*                 two st.cache_data(ttl=3600) caches and a clock.         *)
(***************************************************************************)
EXTENDS Integers, Sequences, FiniteSets, TLC

\* ------------------------------------------------------------------ bounds
MaxCodes == 2
MaxEntries == 2
YearSpan == 1
MaxObs == 3
TickStep == 1800
MaxTime == 5400

\* ------------------------------------------------------- program constants
TTL == 3600
FirstYear == 2000

\* -------------------------------------------------------------- data sets
\* JSON null, an absent key and an unparsable date string are encoded as
\* negative integers, apart from every number and year of the model
Null == -1
Missing == -2
NaD == -3

Codes == {"DE", "US"}
\* display names, in the order pandas sorts them (lexicographic)
NameOrder == <<"Germany", "United States">>
Names == {NameOrder[i] : i \in DOMAIN NameOrder}
NameOf(code) == IF code = "DE" THEN "Germany" ELSE "United States"
Years == FirstYear .. (FirstYear + YearSpan)
Values == {1, 2}

BoundedSeq(S, n) == UNION {[1..k -> S] : k \in 0..n}

\* one element of data[1] of an indicator response: a well-formed entry has
\* a 'value' (number or null), a 'date' string and a country display name;
\* MalformedEntry lacks the 'value' key, NaD is a date int() cannot parse.
\* The provider labels the entries of a country's response with that
\* country's display name; it is free to answer with dates outside the
\* requested range lo:hi (lo - 1 stands for those).
MalformedEntry(code) == [country |-> NameOf(code), date |-> NaD, value |-> Missing]
FetchEntries(code, lo, hi) ==
    [country : {NameOf(code)}, date : {lo - 1, hi, NaD}, value : {1}]
        \cup {[country |-> NameOf(code), date |-> hi, value |-> Null],
              MalformedEntry(code)}

\* what requests.get(url) followed by response.json() can produce:
\*   neterr    - requests.get raises
\*   nonjson   - response.json() raises (e.g. an HTML error page)
\*   errbody   - a one-element JSON array, the provider's error message
\*               (what a non-2xx answer of the provider carries)
\*   nopayload - [meta, null]
\*   payload   - [meta, entries]
Resp(kind, entries) == [kind |-> kind, entries |-> entries]
FetchResponses(code, lo, hi) ==
    {Resp(k, <<>>) : k \in {"neterr", "nonjson", "errbody", "nopayload"}}
        \cup {Resp("payload", es) :
                es \in BoundedSeq(FetchEntries(code, lo, hi), MaxEntries)}

\* ---------------------------------------------- get_wb_indicator_data body
EntryRaises(e) ==
    \/ e.value = Missing
    \/ e.value # Null /\ e.date = NaD

KeepsEntryNullToo(e) == TRUE

KeepsEntry(e) == e.value # Null

Observation(e) == [Country |-> e.country, Year |-> e.date, Value |-> e.value]

\* the inner for loop: append entry by entry until one raises
RECURSIVE ProcessEntries(_, _)
ProcessEntries(data, es) ==
    IF es = <<>> THEN data
    ELSE IF EntryRaises(Head(es)) THEN data
    ELSE IF KeepsEntry(Head(es))
         THEN ProcessEntries(Append(data, Observation(Head(es))), Tail(es))
         ELSE ProcessEntries(data, Tail(es))

\* one iteration of the outer loop: try ... except: continue
ProcessResponse(data, r) ==
    IF r.kind = "payload" /\ r.entries # <<>>
    THEN ProcessEntries(data, r.entries)
    ELSE data

\* the request of one country failed: network error, non-2xx answer,
\* unparsable body, or an entry of the payload that raises
ResponseFails(r) ==
    \/ r.kind \in {"neterr", "nonjson", "errbody"}
    \/ r.kind = "payload" /\ \E i \in DOMAIN r.entries : EntryRaises(r.entries[i])

\* requests.get is called once in an iteration, whatever its outcome
RequestsIssuedWithRetry(r) == IF ResponseFails(r) THEN 2 ELSE 1

RequestsIssued(r) == 1

InRange(y, lo, hi) == lo <= y /\ y <= hi

\* ------------------------------------------------- rendering of a DataFrame
\* an absent cell of the pivot (NaN) and the empty CSV field it is written as
NaN == -4
EmptyField == -5

ObservationRows == [Country : Names, Year : Years, Value : Values]

YearOfFirstRow(d) == d[1].Year

\* df['Year'].max()
RECURSIVE YearMax(_)
YearMax(d) ==
    IF Len(d) = 1 THEN d[1].Year
    ELSE LET m == YearMax(Tail(d))
         IN  IF d[1].Year > m THEN d[1].Year ELSE m

\* df[df['Year'] == latest_year]
RowsOfYear(d, y) ==
    LET Test(o) == o.Year = y IN SelectSeq(d, Test)

\* latest_data[latest_data['Country'] == country]
RowsOfCountry(d, c) ==
    LET Test(o) == o.Country = c IN SelectSeq(d, Test)

\* the loop over selected_countries: a tile for a country only if it has a
\* row in latest_data, showing the first such row's value
MetricTiles(sel, latest, y) ==
    [i \in DOMAIN sel |->
        LET country_latest == RowsOfCountry(latest, sel[i])
        IN  IF country_latest # <<>>
            THEN [label |-> sel[i], shown |-> TRUE,
                  value |-> country_latest[1].Value, delta |-> y]
            ELSE [label |-> sel[i], shown |-> FALSE,
                  value |-> NaN, delta |-> y]]

\* ascending sequence of a finite set of integers
RECURSIVE Ascending(_)
Ascending(S) ==
    IF S = {} THEN <<>>
    ELSE LET m == CHOOSE x \in S : \A z \in S : x <= z
         IN  <<m>> \o Ascending(S \ {m})

Reverse(q) == [i \in DOMAIN q |-> q[Len(q) + 1 - i]]

\* pandas raises ValueError("Index contains duplicate entries, cannot
\* reshape") when two rows share (index, columns)
HasDuplicates(d) ==
    \E i, j \in DOMAIN d :
        i < j /\ d[i].Year = d[j].Year /\ d[i].Country = d[j].Country

NoTable == [error |-> TRUE, index |-> <<>>, columns |-> <<>>, cell |-> <<>>]

\* df.pivot(index='Year', columns='Country', values='Value'): index and
\* columns sorted ascending, NaN where no row exists. cell[r][k] is the cell
\* of row index[r] and column columns[k].
Pivot(d) ==
    IF HasDuplicates(d) THEN NoTable
    ELSE LET index == Ascending({d[i].Year : i \in DOMAIN d})
             present == {d[i].Country : i \in DOMAIN d}
             InDf(c) == c \in present
             columns == SelectSeq(NameOrder, InDf)
             At(y, c) ==
                 IF \E i \in DOMAIN d : d[i].Year = y /\ d[i].Country = c
                 THEN d[CHOOSE i \in DOMAIN d :
                            d[i].Year = y /\ d[i].Country = c].Value
                 ELSE NaN
         IN  [error |-> FALSE, index |-> index, columns |-> columns,
              cell |-> [r \in DOMAIN index |->
                          [k \in DOMAIN columns |-> At(index[r], columns[k])]]]

SortIndexKept(t) == t

\* pivot_df.sort_index(ascending=False)
SortIndexDescending(t) ==
    [t EXCEPT !.index = Reverse(t.index), !.cell = Reverse(t.cell)]

\* pivot_df.to_csv(): a header of the index name and the column names, then
\* one line per row in the table's own order, NaN written as an empty field
ToCsv(t) ==
    [header |-> <<"Year">> \o t.columns,
     lines |-> [r \in DOMAIN t.index |->
                 <<t.index[r]>> \o
                 [k \in DOMAIN t.columns |->
                     IF t.cell[r][k] = NaN THEN EmptyField ELSE t.cell[r][k]]]]

NoCsv == [header |-> <<>>, lines |-> <<>>]

\* the values st.multiselect can return: distinct names, in selection order
Selections ==
    {q \in BoundedSeq(Names, Cardinality(Names)) :
        q # <<>> /\ \A i, j \in DOMAIN q : i # j => q[i] # q[j]}

\* ------------------------------------------------------------ get_countries
\* one element of data[1] of the country listing; an absent key is Absent,
\* an aggregate ("European Union", "World") has an empty capitalCity
Absent == "<missing>"
CountryEntry(id, name, capital, region) ==
    [id |-> id, name |-> name, capitalCity |-> capital, region |-> region]

EntryOfDE == CountryEntry("DE", "Germany", "Berlin", "Europe & Central Asia")
EntryOfUS == CountryEntry("US", "United States", "Washington D.C.", "North America")
EntryOfEU == CountryEntry("EU", "European Union", "", "")
EntryNoRegion == CountryEntry("FR", "France", "Paris", Absent)

\* the answers of the listing endpoint the dashboard is run against: the
\* failures, a listing of one country and one aggregate, and a listing whose
\* second entry lacks a key
ListingResponses ==
    {Resp(k, <<>>) : k \in {"neterr", "nonjson", "errbody", "nopayload"}}
        \cup {Resp("payload", <<EntryOfDE, EntryOfEU>>),
              Resp("payload", <<EntryOfDE, EntryNoRegion>>)}

CountryRaises(e) ==
    \/ e.capitalCity = Absent
    \/ e.capitalCity # "" /\ Absent \in {e.id, e.name, e.region}

CountryRow(e) == [id |-> e.id, name |-> e.name, region |-> e.region]

\* the for loop of get_countries; raised is the exception leaving it
RECURSIVE CollectCountries(_, _)
CollectCountries(countries, es) ==
    IF es = <<>> THEN [raised |-> FALSE, rows |-> countries]
    ELSE IF CountryRaises(Head(es)) THEN [raised |-> TRUE, rows |-> countries]
    ELSE IF Head(es).capitalCity # ""
         THEN CollectCountries(Append(countries, CountryRow(Head(es))), Tail(es))
         ELSE CollectCountries(countries, Tail(es))

\* the listing request failed: network error, unparsable or error body, no
\* data[1] to iterate, or an entry without the keys the loop reads
ListingFails(r) ==
    \/ r.kind # "payload"
    \/ \E i \in DOMAIN r.entries : CountryRaises(r.entries[i])

get_countries_keeps_partial(r) ==
    IF r.kind # "payload" THEN <<>> ELSE CollectCountries(<<>>, r.entries).rows

\* get_countries() on the listing answer r: the rows of the DataFrame
\* returned, the empty one of the except branch if anything raised
get_countries(r) ==
    IF r.kind # "payload" THEN <<>>
    ELSE LET c == CollectCountries(<<>>, r.entries)
         IN  IF c.raised THEN <<>> ELSE c.rows

\* ------------------------------------------------ st.cache_data(ttl=3600)
\* an entry is served while the clock is less than ttl past its creation
FreshInclusive(created, t) == t <= created + TTL

Fresh(created, t) == t < created + TTL

\* the key of a get_wb_indicator_data call: the argument values, the list
\* of country codes in the order passed
CallKey(codes, indicator, lo, hi) ==
    [codes |-> codes, indicator |-> indicator, start |-> lo, end |-> hi]

Cached(cache, key, t) ==
    \E e \in cache : e.key = key /\ Fresh(e.created, t)

CachedValue(cache, key) == (CHOOSE e \in cache : e.key = key).value

\* storing purges the expired entries and replaces the key's entry
Store(cache, key, value, t) ==
    {e \in cache : e.key # key /\ Fresh(e.created, t)}
        \cup {[key |-> key, created |-> t, value |-> value]}

\* ------------------------------------------------------------- main script
indicator_code == "NY.GDP.MKTP.KD.ZG"
default_countries == <<"United States", "Germany">>
DefaultStart == FirstYear
DefaultEnd == FirstYear + YearSpan
\* the values the two number_inputs are set to
YearChoices == {DefaultStart, DefaultEnd}

\* the validation of lines 190 and 194
RangeNeverInvalid(lo, hi) == FALSE

RangeInvalid(lo, hi) == lo > hi

Regions(rows) == {rows[i].region : i \in DOMAIN rows}

\* countries_df[countries_df['region'] == selected_region], or all of it
FilterRegion(rows, region) ==
    LET Test(c) == region = "All" \/ c.region = region
    IN  SelectSeq(rows, Test)

RowNames(rows) == {rows[i].name : i \in DOMAIN rows}

Elements(q) == {q[i] : i \in DOMAIN q}

\* filtered_countries[filtered_countries['name'].isin(selected)]['id'].tolist()
CountryCodes(filtered, selected) ==
    LET Test(c) == c.name \in Elements(selected)
        picked == SelectSeq(filtered, Test)
    IN  [i \in DOMAIN picked |-> picked[i].id]

\* the default of the multiselect: the default countries that are offered
DefaultSelection(filtered) ==
    LET Test(n) == n \in RowNames(filtered)
    IN  SelectSeq(default_countries, Test)

\* the answers of the indicator endpoint the dashboard is run against: a
\* network error or one observation of the end year (SpecFetch covers the
\* provider in full)
DashResponses(code, lo, hi) ==
    {Resp("neterr", <<>>),
     Resp("payload", <<[country |-> NameOf(code), date |-> hi, value |-> 1]>>)}

AnswersFor(codes, lo, hi) ==
    {rs \in [DOMAIN codes -> UNION {DashResponses(c, lo, hi) : c \in Codes}] :
        \A i \in DOMAIN codes : rs[i] \in DashResponses(codes[i], lo, hi)}

\* get_wb_indicator_data: the loop over country_codes, rs[i] being the
\* answer to the request of country_codes[i]; the DataFrame returned and
\* the number of requests made
RECURSIVE FetchAll(_, _, _)
FetchAll(acc, codes, rs) ==
    IF codes = <<>> THEN acc
    ELSE FetchAll([data |-> ProcessResponse(acc.data, Head(rs)),
                   requests |-> acc.requests + RequestsIssued(Head(rs))],
                  Tail(codes), Tail(rs))

get_wb_indicator_data(codes, rs) == FetchAll([data |-> <<>>, requests |-> 0], codes, rs)

NoKey == CallKey(<<>>, "", 0, 0)

\* what one run of the script did and showed
NoRun ==
    [at |-> 0, catalog_requests |-> 0, indicator_requests |-> 0,
     widgets |-> FALSE, unavailable |-> FALSE, start |-> 0, end |-> 0,
     sidebar_error |-> FALSE,
     invoked |-> FALSE, hit |-> FALSE, key |-> NoKey, df |-> <<>>,
     view |-> "none"]

VARIABLES
    \* SpecFetch
    pcF, country_codes, start_year, end_year, idx, all_data, requests,
    expected, nfailed, off_range,
    \* SpecReshape
    pcR, df, selected_countries, latest_year, latest_data, tiles, pivot_df,
    displayed, csv,
    \* Spec
    now, countries_cache, indicator_cache, run, last

fetchVars == <<pcF, country_codes, start_year, end_year, idx, all_data,
               requests, expected, nfailed, off_range>>

reshapeVars == <<pcR, df, selected_countries, latest_year, latest_data, tiles,
                 pivot_df, displayed, csv>>

dashVars == <<now, countries_cache, indicator_cache, run, last>>

vars == <<fetchVars, reshapeVars, dashVars>>

NoCatalog == [present |-> FALSE, created |-> 0, failed |-> FALSE, rows |-> <<>>]

DashIdle ==
    /\ now = 0
    /\ countries_cache = NoCatalog
    /\ indicator_cache = {}
    /\ run = NoRun
    /\ last = "start"

FetchIdle ==
    /\ pcF = "idle"
    /\ country_codes = <<>>
    /\ start_year = FirstYear
    /\ end_year = FirstYear
    /\ idx = 0
    /\ all_data = <<>>
    /\ requests = 0
    /\ expected = <<>>
    /\ nfailed = 0
    /\ off_range = FALSE

ReshapeIdle ==
    /\ pcR = "idle"
    /\ df = <<>>
    /\ selected_countries = <<>>
    /\ latest_year = FirstYear
    /\ latest_data = <<>>
    /\ tiles = <<>>
    /\ pivot_df = NoTable
    /\ displayed = NoTable
    /\ csv = NoCsv

FetchInit ==
    /\ pcF = "loop"
    /\ country_codes \in BoundedSeq(Codes, MaxCodes)
    /\ start_year \in Years
    /\ end_year \in Years
    /\ start_year <= end_year
    /\ idx = 0
    /\ all_data = <<>>
    /\ requests = 0
    /\ expected = <<>>
    /\ nfailed = 0
    /\ off_range = FALSE
    /\ ReshapeIdle
    /\ DashIdle

\* lines 47-62: the request and processing of the next country
FetchCountry ==
    /\ pcF = "loop"
    /\ idx < Len(country_codes)
    /\ \E r \in FetchResponses(country_codes[idx + 1], start_year, end_year) :
        /\ all_data' = ProcessResponse(all_data, r)
        /\ expected' = IF ResponseFails(r) THEN expected
                       ELSE ProcessResponse(expected, r)
        /\ nfailed' = nfailed + (IF ResponseFails(r) THEN 1 ELSE 0)
        /\ off_range' = (off_range \/ \E i \in DOMAIN r.entries :
                            /\ r.entries[i].date # NaD
                            /\ ~InRange(r.entries[i].date, start_year, end_year))
        /\ requests' = requests + RequestsIssued(r)
    /\ idx' = idx + 1
    /\ UNCHANGED <<pcF, country_codes, start_year, end_year, reshapeVars, dashVars>>

\* line 64
FetchReturn ==
    /\ pcF = "loop"
    /\ idx = Len(country_codes)
    /\ pcF' = "returned"
    /\ UNCHANGED <<country_codes, start_year, end_year, idx, all_data,
                   requests, expected, nfailed, off_range, reshapeVars, dashVars>>

FetchNext == FetchCountry \/ FetchReturn

SpecFetch == FetchInit /\ [][FetchNext]_vars

\* ------------------------------------------------------------ SpecReshape
\* the DataFrame is one get_wb_indicator_data can return and the script
\* renders (line 202: not df.empty; line 193: selected_countries non-empty)
ReshapeInit ==
    /\ pcR = "render"
    /\ df \in BoundedSeq(ObservationRows, MaxObs) \ {<<>>}
    /\ selected_countries \in Selections
    /\ latest_year = FirstYear
    /\ latest_data = <<>>
    /\ tiles = <<>>
    /\ pivot_df = NoTable
    /\ displayed = NoTable
    /\ csv = NoCsv
    /\ FetchIdle
    /\ DashIdle

\* lines 212-266; the ValueError of df.pivot ends the run before the table
\* and the download button are rendered
Render ==
    /\ pcR = "render"
    /\ latest_year' = YearMax(df)
    /\ latest_data' = RowsOfYear(df, latest_year')
    /\ tiles' = MetricTiles(selected_countries, latest_data', latest_year')
    /\ pivot_df' = Pivot(df)
    /\ IF pivot_df'.error
       THEN /\ pcR' = "ValueError"
            /\ UNCHANGED <<displayed, csv>>
       ELSE /\ pcR' = "rendered"
            /\ displayed' = SortIndexDescending(pivot_df')
            /\ csv' = ToCsv(pivot_df')
    /\ UNCHANGED <<df, selected_countries, fetchVars, dashVars>>

ReshapeNext == Render

SpecReshape == ReshapeInit /\ [][ReshapeNext]_vars

\* ------------------------------------------------------------------- Spec
Init ==
    /\ DashIdle
    /\ FetchIdle
    /\ ReshapeIdle

\* time passes between two runs
Tick ==
    /\ now + TickStep <= MaxTime
    /\ now' = now + TickStep
    /\ last' = "tick"
    /\ UNCHANGED <<countries_cache, indicator_cache, run>>

\* line 159: countries_df = get_countries() through its cache: the entry
\* if it is fresh, else the outcome of the call on the provider's answer lr
CatalogCachedUnlessEmpty ==
    /\ countries_cache.present
    /\ Fresh(countries_cache.created, now)
    /\ countries_cache.rows # <<>>

CatalogCached == countries_cache.present /\ Fresh(countries_cache.created, now)

CatalogHit == [requests |-> 0, cache |-> countries_cache]

CatalogMiss(lr) ==
    [requests |-> 1,
     cache |-> [present |-> TRUE, created |-> now,
                failed |-> ListingFails(lr),
                rows |-> get_countries(lr)]]

\* lines 269-270: the catalog is empty
ShowUnavailable(cat) ==
    /\ cat.cache.rows = <<>>
    /\ run' = [NoRun EXCEPT !.at = now,
                            !.catalog_requests = cat.requests,
                            !.unavailable = TRUE,
                            !.view = "unavailable"]
    /\ UNCHANGED indicator_cache

\* what the rendering of df shows (lines 202-268)
ViewOf(d) ==
    IF d = <<>> THEN "warning"
    ELSE IF Pivot(d).error THEN "ValueError" ELSE "rendered"

\* lines 161-268 with the widget values region, selected, lo, hi, button; rs
\* are the provider's answers to the requests of an uncached fetch
ShowDashboard(cat, region, selected, lo, hi, button) ==
    LET filtered == FilterRegion(cat.cache.rows, region)
        codes == CountryCodes(filtered, selected)
        key == CallKey(codes, indicator_code, lo, hi)
        base == [NoRun EXCEPT !.at = now,
                              !.catalog_requests = cat.requests,
                              !.widgets = TRUE,
                              !.start = lo, !.end = hi,
                              !.sidebar_error = RangeInvalid(lo, hi)]
    IN  /\ cat.cache.rows # <<>>
        /\ IF selected = <<>> \/ ~button
           THEN /\ run' = base
                /\ UNCHANGED indicator_cache
           ELSE IF RangeInvalid(lo, hi)
           THEN /\ run' = [base EXCEPT !.view = "invalid_range"]
                /\ UNCHANGED indicator_cache
           ELSE IF Cached(indicator_cache, key, now)
           THEN /\ run' = [base EXCEPT
                              !.invoked = TRUE, !.hit = TRUE, !.key = key,
                              !.df = CachedValue(indicator_cache, key),
                              !.view = ViewOf(CachedValue(indicator_cache, key))]
                /\ UNCHANGED indicator_cache
           ELSE \E rs \in AnswersFor(codes, lo, hi) :
                  LET fetched == get_wb_indicator_data(codes, rs)
                  IN  /\ run' = [base EXCEPT
                                    !.invoked = TRUE, !.key = key,
                                    !.indicator_requests = fetched.requests,
                                    !.df = fetched.data,
                                    !.view = ViewOf(fetched.data)]
                      /\ indicator_cache' =
                             Store(indicator_cache, key, fetched.data, now)

\* the script from line 159 on, cat being the outcome of get_countries().
\* Widgets the previous run did not render come up with their defaults and
\* the button, not yet on the page, was not pressed.
RunWith(cat) ==
    /\ countries_cache' = cat.cache
    /\ last' = "run"
    /\ UNCHANGED now
    /\ \/ ShowUnavailable(cat)
       \/ /\ ~run.widgets
          /\ ShowDashboard(cat, "All", DefaultSelection(cat.cache.rows),
                           DefaultStart, DefaultEnd, FALSE)
       \/ /\ run.widgets
          /\ \E region \in {"All"} \cup Regions(cat.cache.rows),
                lo \in YearChoices, hi \in YearChoices, button \in BOOLEAN :
               \E selected \in
                    {q \in Selections \cup {<<>>} :
                        Elements(q) \subseteq
                            RowNames(FilterRegion(cat.cache.rows, region))} :
                 ShowDashboard(cat, region, selected, lo, hi, button)

\* one run of the script
RunScript ==
    IF CatalogCached
    THEN RunWith(CatalogHit)
    ELSE \E lr \in ListingResponses : RunWith(CatalogMiss(lr))

Next ==
    \/ Tick /\ UNCHANGED <<fetchVars, reshapeVars>>
    \/ RunScript /\ UNCHANGED <<fetchVars, reshapeVars>>

Spec == Init /\ [][Next]_vars

\* ----------------------------------------------------------------- claims
Returned == pcF = "returned"

\* C1 (as claimed): get_wb_indicator_data returns exactly the observations of
\* the countries whose request did not fail; a failing country, also one
\* whose payload turns malformed after valid entries, contributes nothing.
C1_OnlyNonFailingCountriesContribute ==
    Returned => all_data = expected

\* C2 (as claimed): every observation returned has a non-null value and a
\* year within start_year..end_year, whatever the provider answers.
C2_EveryObservationInRequestedRange ==
    \A i \in DOMAIN all_data :
        /\ all_data[i].Value # Null
        /\ InRange(all_data[i].Year, start_year, end_year)

\* C2 (amended): every observation returned has a non-null value and the
\* integer year of a provider entry; the years lie within the requested
\* range whenever the dates the provider answered with do.
C2_NonNullValuesProviderYears ==
    \A i \in DOMAIN all_data :
        /\ all_data[i].Value \notin {Null, Missing}
        /\ all_data[i].Year # NaD
        /\ ~off_range => InRange(all_data[i].Year, start_year, end_year)

\* C2, the case reached: a call returned two or more observations, no request failed and every date served was in range
C2_Witness ==
    /\ Returned
    /\ Len(all_data) >= 2
    /\ nfailed = 0
    /\ ~off_range

\* C8: an uncached call makes one request per element of country_codes,
\* failed or not, so as many requests as country codes; with no country
\* code it makes no request and returns the empty DataFrame.
C8_OneRequestPerCountryCode ==
    /\ requests = idx
    /\ Returned => requests = Len(country_codes)
    /\ (Returned /\ country_codes = <<>>) => (requests = 0 /\ all_data = <<>>)

\* C8, the case reached: a call over MaxCodes country codes returned after some, not all, of its requests failed
C8_Witness ==
    /\ Returned
    /\ Len(country_codes) = MaxCodes
    /\ nfailed >= 1
    /\ nfailed < MaxCodes

Rendered == pcR = "rendered"

RenderDone == pcR \in {"rendered", "ValueError"}

RowsAt(d, y, c) == {i \in DOMAIN d : d[i].Year = y /\ d[i].Country = c}

Last(S) == CHOOSE i \in S : \A j \in S : j <= i

Position(q, x) == CHOOSE i \in DOMAIN q : q[i] = x

\* the cell of year y and country c of a table, NaN if it has no such cell
CellAt(t, y, c) ==
    IF y \in Elements(t.index) /\ c \in Elements(t.columns)
    THEN t.cell[Position(t.index, y)][Position(t.columns, c)]
    ELSE NaN

\* C4 (as claimed): the pivot of a DataFrame holding several rows for one
\* (year, country) is a table whose cell there is the value of the last such
\* row, every other cell holding its row's value or nothing.
C4_LastDuplicateWins ==
    (RenderDone /\ HasDuplicates(df)) =>
        /\ ~pivot_df.error
        /\ \A y \in Years, c \in Names :
              CellAt(pivot_df, y, c) =
                  IF RowsAt(df, y, c) = {} THEN NaN
                  ELSE df[Last(RowsAt(df, y, c))].Value

\* C5: latest_year is the maximum year of the DataFrame, latest_data holds
\* exactly its rows of that year, and a selected country gets one tile, with
\* the value of a row of it in that year, if it has such a row and no tile
\* otherwise.
C5_LatestYearSlice ==
    RenderDone =>
        /\ \E i \in DOMAIN df : df[i].Year = latest_year
        /\ \A i \in DOMAIN df : df[i].Year <= latest_year
        /\ \A j \in DOMAIN latest_data :
              latest_data[j].Year = latest_year
        /\ \A c \in Names, v \in Values :
              Cardinality({j \in DOMAIN latest_data :
                              latest_data[j].Country = c /\ latest_data[j].Value = v})
                = Cardinality({i \in DOMAIN df :
                              /\ df[i].Year = latest_year
                              /\ df[i].Country = c /\ df[i].Value = v})
        /\ DOMAIN tiles = DOMAIN selected_countries
        /\ \A k \in DOMAIN tiles :
              LET rows == {i \in DOMAIN df :
                              /\ df[i].Year = latest_year
                              /\ df[i].Country = selected_countries[k]}
              IN  /\ tiles[k].label = selected_countries[k]
                  /\ tiles[k].shown <=> rows # {}
                  /\ tiles[k].shown =>
                        /\ tiles[k].delta = latest_year
                        /\ \E i \in rows : tiles[k].value = df[i].Value
                  /\ ~tiles[k].shown => tiles[k].value = NaN

\* C5, the case reached: two countries are selected, one has a tile and the other, present in earlier years only, has none
C5_Witness ==
    /\ RenderDone
    /\ Len(selected_countries) = 2
    /\ \E k \in DOMAIN tiles : tiles[k].shown
    /\ \E k \in DOMAIN tiles :
          /\ ~tiles[k].shown
          /\ \E i \in DOMAIN df : df[i].Country = selected_countries[k]
    /\ Len(latest_data) < Len(df)

Descending(q) == \A i, j \in DOMAIN q : i < j => q[i] > q[j]

Increasing(q) == \A i, j \in DOMAIN q : i < j => q[i] < q[j]

FirstColumn(text) == [r \in DOMAIN text.lines |-> text.lines[r][1]]

\* C9 (as claimed): the year rows are in descending order in the displayed
\* table and in the exported CSV text.
C9_DescendingInTableAndCsv ==
    Rendered =>
        /\ Descending(displayed.index)
        /\ Descending(FirstColumn(csv))

\* C9 (amended): the displayed table has its year rows in descending order;
\* the exported CSV text has them in ascending order, under a header of
\* "Year" followed by the country names, with the year first in each line.
C9_DescendingTableAscendingCsv ==
    Rendered =>
        /\ Descending(displayed.index)
        /\ Elements(displayed.index) = {df[i].Year : i \in DOMAIN df}
        /\ \A y \in Years, c \in Names :
              CellAt(displayed, y, c) = CellAt(pivot_df, y, c)
        /\ Increasing(FirstColumn(csv))
        /\ Elements(FirstColumn(csv)) = {df[i].Year : i \in DOMAIN df}
        /\ csv.header = <<"Year">> \o pivot_df.columns
        /\ Elements(pivot_df.columns) = {df[i].Country : i \in DOMAIN df}

\* C9, the case reached: a table of two or more years and both countries was displayed and exported
C9_Witness ==
    /\ Rendered
    /\ Len(displayed.index) >= 2
    /\ Len(csv.lines) >= 2
    /\ Len(csv.header) = 3

RanScript == last = "run"

\* C3 (as claimed): a run with start year > end year shows the validation
\* message and makes no network call at all; get_wb_indicator_data is not
\* invoked.
C3_NoNetworkCallWhenRangeInvalid ==
    (RanScript /\ run.widgets /\ run.start > run.end) =>
        /\ run.sidebar_error
        /\ ~run.invoked
        /\ run.catalog_requests + run.indicator_requests = 0

\* C3 (amended): a run with start year > end year shows the validation
\* message, does not invoke get_wb_indicator_data and makes no indicator
\* request; the only request it can make is get_countries' listing request,
\* made when the catalog's cache entry is absent or expired.
C3_NoIndicatorFetchWhenRangeInvalid ==
    (RanScript /\ run.widgets /\ run.start > run.end) =>
        /\ run.sidebar_error
        /\ ~run.invoked
        /\ run.indicator_requests = 0
        /\ run.view \in {"none", "invalid_range"}
        /\ run.catalog_requests = 1 => run.at = countries_cache.created

\* C3, the case reached: Load Data was pressed with start year > end year in a run that re-fetched the expired catalog
C3_Witness ==
    /\ RanScript
    /\ run.widgets
    /\ run.start > run.end
    /\ run.view = "invalid_range"
    /\ run.catalog_requests = 1

\* C7: when the listing request or its parsing fails, get_countries returns
\* the empty catalog and the run shows 'Unable to load country data', offers
\* no widget and fetches no indicator.
C7_FailedListingBlocksTheRun ==
    (RanScript /\ run.catalog_requests = 1 /\ countries_cache.failed) =>
        /\ countries_cache.rows = <<>>
        /\ run.unavailable
        /\ run.view = "unavailable"
        /\ ~run.widgets
        /\ ~run.invoked
        /\ run.indicator_requests = 0

\* C7, the case reached: a run whose listing request failed, after indicator data had been loaded earlier
C7_Witness ==
    /\ RanScript
    /\ run.catalog_requests = 1
    /\ countries_cache.failed
    /\ run.unavailable
    /\ indicator_cache # {}

\* C10: while the cache entry of a failed catalog load is less than an hour
\* old, a run makes no listing request, leaves the entry as it is and shows
\* the CatalogUnavailable message.
C10_FailedCatalogIsMemoized ==
    [][(/\ countries_cache.present
        /\ countries_cache.failed
        /\ now < countries_cache.created + TTL
        /\ last' = "run")
       => (/\ run'.catalog_requests = 0
           /\ countries_cache' = countries_cache
           /\ run'.unavailable
           /\ ~run'.widgets
           /\ ~run'.invoked)]_vars

\* C10, the case reached: a run later than a failed catalog load was served the empty catalog from the cache
C10_Witness ==
    /\ RanScript
    /\ countries_cache.failed
    /\ run.catalog_requests = 0
    /\ run.unavailable
    /\ run.at > countries_cache.created

====
